---- MODULE Spec2Model ----
(***************************************************************************)
(* resolve_found_already_linked.py as a state machine.                     *)
(*                                                                         *)
(* The script is sequential; every remote call blocks.  One step of the    *)
(* model is one HTTP exchange (the request, the collaborator's answer and  *)
(* the code of _do_request that handles it) or the code of main and its    *)
(* helpers that runs between a returned (or raised) api_get / api_delete   *)
(* and the next request; rq is the frame of the _do_request call, idle     *)
(* when no call is in progress.  The identity-management service is        *)
(* modelled by its link repository, the reconciliations it lists, the      *)
(* pages of flagged entries it serves and the status it answers with;      *)
(* another client of the repository may update a link between exchanges.   *)
(***************************************************************************)
EXTENDS Integers, Sequences, FiniteSets, TLC

\* ------------------------------------------------------------- bounds
MaxPages == 2     \* the service serves at most this many entry pages
MaxSample == 2    \* SAMPLE_SIZE ranges over -1 .. MaxSample
MaxMods == 1      \* updates of link records by other clients during a run

\* ------------------------------------------------- configuration, data
\* The source ships MAPPING_NAME = "" to be filled in before a run; the
\* model runs with a mapping's name, and OtherMapping is any other one.
MAPPING_NAME == "managedUser_systemLdap"
OtherMapping == "systemLdap_managedUser"

\* A missing JSON member / Python None / empty string: all falsy.
NoId == ""
NoRev == ""
NoCookie == 0

\* Python truthiness of the values the code tests with `if x` / `not x`.
TruthyStr(s) == s # ""
TruthyInt(n) == n # 0

Entry(s, t) == [sourceObjectId |-> s, targetObjectId |-> t]

\* The flagged entries the service may report, and the batches (pages'
\* "result" lists) it may serve them in.
EntryAB == Entry("a", "b")
EntryC == Entry("c", NoId)
EntryNone == Entry(NoId, NoId)
Batches == { <<>>, <<EntryAB>>, <<EntryC, EntryNone>> }

\* The link records that may exist in the repository: endpoints and link
\* type per link id.  Link 1 is the a-b link of the configured mapping,
\* link 2 a link of the same mapping between c and a, link 3 an a-b link
\* of another mapping.
LinkIds == {1, 2, 3}
LinkShape(l) ==
    CASE l = 1 -> [firstId |-> "a", secondId |-> "b", linkType |-> MAPPING_NAME]
      [] l = 2 -> [firstId |-> "c", secondId |-> "a", linkType |-> MAPPING_NAME]
      [] OTHER -> [firstId |-> "a", secondId |-> "b", linkType |-> OtherMapping]

\* Revision tokens: opaque values; the empty one stands for an empty or
\* null _rev member.  The records of the repository start at one of
\* InitRevs, and an update gives a record a revision it never had.
InitRevs == {NoRev, "0"}
NextRev(r) ==
    CASE r = NoRev -> "1" [] r = "0" -> "1" [] r = "1" -> "2" [] r = "2" -> "3"
      [] OTHER -> "4"

Recon(id, m, st, fal) ==
    [_id |-> id, mapping |-> m, started |-> st, FOUND_ALREADY_LINKED |-> fal]

\* What GET /recon may list.
ReconLists ==
    { <<>>,
      << Recon("r1", OtherMapping, 1, 1) >>,
      << Recon("r1", MAPPING_NAME, 1, 0) >>,
      << Recon("r1", MAPPING_NAME, 1, 0), Recon("r2", OtherMapping, 3, 1),
         Recon("r3", MAPPING_NAME, 2, 2) >> }

VARIABLES
    SAMPLE_SIZE,   \* the configured constant of a run (line 27)
    run,           \* 1: first invocation of the script, 2: the re-run
    prev,          \* the summary the first invocation printed
    \* the service
    srvRecons,     \* the reconciliations GET /recon lists
    srvPages,      \* the entry pages served so far (fixed once served)
    repo,          \* link id -> link record
    mods,          \* updates by other clients so far
    removed,       \* link records the service deleted in this run
    \* the script
    pc,            \* position in main
    token,         \* token_mgr._token
    rq,            \* the _do_request call in progress / just finished
    recon_id, fal_count,
    entries, cookie, page,
    to_process, i,
    pending, candidates, links, j,
    deleted, failed, not_found,
    \* bookkeeping of the run
    delFailed,     \* api_delete calls that raised
    resolved       \* Len of find_link's result, per entry handled

srv == <<srvRecons, srvPages, repo, mods, removed>>
fetch == <<recon_id, fal_count, entries, cookie, page>>
loop == <<to_process, i, pending, candidates, links, j>>
counters == <<deleted, failed, not_found>>
vars == <<SAMPLE_SIZE, run, prev, srv, pc, token, rq, fetch, loop, counters,
          delFailed, resolved>>

\* ------------------------------------------------------------ helpers
Min(a, b) == IF a < b THEN a ELSE b

RECURSIVE SortedSeq(_)
\* The elements of a set of integers, ascending.
SortedSeq(S) ==
    IF S = {} THEN <<>>
    ELSE LET m == CHOOSE x \in S : \A y \in S : x <= y
         IN <<m>> \o SortedSeq(S \ {m})

RECURSIVE Sum(_)
Sum(s) == IF s = <<>> THEN 0 ELSE Head(s) + Sum(Tail(s))

RECURSIVE Concat(_)
Concat(ss) == IF ss = <<>> THEN <<>> ELSE Head(ss) \o Concat(Tail(ss))

LinkRecord(l, rev) ==
    [_id |-> l, _rev |-> rev,
     firstId |-> LinkShape(l).firstId, secondId |-> LinkShape(l).secondId,
     linkType |-> LinkShape(l).linkType]

\* ------------------------------------------------- the remote service
EmptyBody ==
    [reconciliations |-> <<>>, result |-> <<>>, links |-> <<>>,
     pagedResultsCookie |-> NoCookie]

\* GET /repo/link?_queryFilter=<field> eq "<id>": the records whose
\* endpoint field equals the id, in id order.
QueryLinks(field, id) ==
    LET hit == { l \in DOMAIN repo :
                    IF field = "firstId" THEN repo[l].firstId = id
                                         ELSE repo[l].secondId = id }
        ord == SortedSeq(hit)
    IN [k \in 1..Len(ord) |-> repo[ord[k]]]

\* DELETE /repo/link/{id}: the record exists and the If-Match
\* precondition, when the request carries one, names its current revision.
DeleteAccepted(r) ==
    /\ r.lid \in DOMAIN repo
    /\ (r.ifMatch.present => r.ifMatch.value = repo[r.lid]._rev)

\* A page: the batch and the continuation cookie returned with it.  The
\* cookie returned with page p, if any, is p; a request carrying cookie p
\* asks for page p + 1.
Page(batch, ck) == [result |-> batch, pagedResultsCookie |-> ck]

\* The answers the service may give to request r: the HTTP status, the
\* JSON body and the state of the service after it.  Any request may be
\* answered 401 or 500; a success is answered from the service's data.
Answers(r) ==
    LET same == [repo |-> repo, srvPages |-> srvPages, removed |-> removed]
        fail(s) == [status |-> s, body |-> EmptyBody] @@ same
        okGet(b) == [status |-> 200, body |-> b] @@ same
        p == r.params.cookie + 1
    IN {fail(401), fail(500)} \cup
       CASE r.path = "/recon" ->
              {okGet([EmptyBody EXCEPT !.reconciliations = srvRecons])}
         [] r.path = "/recon/assoc/{id}/entry" ->
              IF p <= Len(srvPages)
              THEN {okGet([EmptyBody EXCEPT
                             !.result = srvPages[p].result,
                             !.pagedResultsCookie = srvPages[p].pagedResultsCookie])}
              ELSE { [status |-> 200,
                      body |-> [EmptyBody EXCEPT !.result = b,
                                                 !.pagedResultsCookie = ck],
                      repo |-> repo,
                      srvPages |-> Append(srvPages, Page(b, ck)),
                      removed |-> removed] :
                     b \in Batches,
                     ck \in IF p < MaxPages THEN {NoCookie, p} ELSE {NoCookie} }
         [] r.path = "/repo/link" /\ r.method = "GET" ->
              {okGet([EmptyBody EXCEPT
                        !.links = QueryLinks(r.params.field, r.params.id)])}
         [] OTHER ->  \* DELETE /repo/link/{id}
              IF DeleteAccepted(r)
              THEN { [status |-> 200,
                      body |-> [EmptyBody EXCEPT !.links = <<repo[r.lid]>>],
                      repo |-> [l \in DOMAIN repo \ {r.lid} |-> repo[l]],
                      srvPages |-> srvPages,
                      removed |-> removed \cup {repo[r.lid]}] }
              ELSE { fail(IF r.lid \in DOMAIN repo THEN 412 ELSE 404) }

\* ------------------------------------------- TokenManager, _do_request
NoParams == [cookie |-> NoCookie, field |-> "", id |-> NoId]

IdleRequest ==
    [st |-> "idle", method |-> "", path |-> "", rid |-> "", lid |-> 0,
     params |-> NoParams, rev |-> NoRev,
     ifMatch |-> [present |-> FALSE, value |-> ""],
     attempt |-> 0, sent |-> 0, refreshed |-> 0, first |-> 0, last |-> 0,
     err |-> "", body |-> EmptyBody]

\* Entering _do_request(method, path, params, rev): nothing sent yet.
NewRequest(method, path, rid, lid, params, rev) ==
    [IdleRequest EXCEPT !.st = "send", !.method = method, !.path = path,
                        !.rid = rid, !.lid = lid, !.params = params,
                        !.rev = rev]

ApiGet(path, rid, params) == NewRequest("GET", path, rid, 0, params, NoRev)
ApiDelete(lid, rev) == NewRequest("DELETE", "/repo/link", "", lid, NoParams, rev)

\* headers = {**HEADERS, ...}; if rev: headers["If-Match"] = rev
Headers(rev) ==
    IF TruthyStr(rev) THEN [present |-> TRUE, value |-> rev]
                      ELSE [present |-> FALSE, value |-> ""]

\* Mutant: the attempt number is not looked at.
MutRetryOnAny401(status, attempt) == status = 401

\* if resp.status_code == 401 and attempt == 0
RetryOn401(status, attempt) == status = 401 /\ attempt = 0

\* resp.raise_for_status(): raises for 4xx and 5xx.
RaisesForStatus(status) == status >= 400 /\ status < 600

\* An exception leaves _do_request in state r.  Only api_delete is called
\* inside a try block (main, lines 258-264); raised out of api_get the
\* exception ends the script with a traceback.
Raise(r, cause) ==
    /\ rq' = [r EXCEPT !.st = "raised", !.err = cause]
    /\ delFailed' = delFailed + (IF r.method = "DELETE" THEN 1 ELSE 0)
    /\ pc' = IF pc = "delete" THEN pc ELSE "error"

\* TokenManager.token on first use: no token yet, refresh() posts the
\* assertion; a failed exchange raises out of _do_request.
TokenFirstUse ==
    /\ rq.st = "send"
    /\ ~TruthyStr(token)
    /\ \E ok \in BOOLEAN :
          IF ok THEN /\ token' = "access_token"
                     /\ UNCHANGED <<rq, delFailed, pc>>
                ELSE /\ Raise(rq, "credential")
                     /\ UNCHANGED token
    /\ UNCHANGED <<SAMPLE_SIZE, run, prev, srv, fetch, loop, counters, resolved>>

\* One iteration of `for attempt in range(2)`: the request is sent with
\* the current token and the headers of this attempt, the service answers,
\* and the code either goes to refresh, raises or returns the body.
Attempt ==
    /\ rq.st = "send"
    /\ TruthyStr(token)
    /\ LET out == [rq EXCEPT !.ifMatch = Headers(rq.rev), !.sent = rq.sent + 1]
       IN \E a \in Answers(out) :
            LET got == [out EXCEPT !.last = a.status,
                                   !.first = IF rq.attempt = 0 THEN a.status
                                                               ELSE rq.first]
            IN /\ repo' = a.repo
               /\ srvPages' = a.srvPages
               /\ removed' = a.removed
               /\ IF RetryOn401(a.status, rq.attempt)
                  THEN /\ rq' = [got EXCEPT !.st = "refresh"]
                       /\ UNCHANGED <<delFailed, pc>>
                  ELSE IF RaisesForStatus(a.status)
                  THEN Raise(got, "http")
                  ELSE /\ rq' = [got EXCEPT !.st = "ok", !.body = a.body]
                       /\ UNCHANGED <<delFailed, pc>>
    /\ UNCHANGED <<SAMPLE_SIZE, run, prev, srvRecons, mods, token, fetch,
                   loop, counters, resolved>>

\* token_mgr.refresh() after a 401 on the first attempt, then `continue`.
Refresh401 ==
    /\ rq.st = "refresh"
    /\ \E ok \in BOOLEAN :
          IF ok THEN /\ token' = "access_token"
                     /\ rq' = [rq EXCEPT !.st = "send", !.attempt = rq.attempt + 1,
                                         !.refreshed = rq.refreshed + 1]
                     /\ UNCHANGED <<delFailed, pc>>
                ELSE /\ Raise([rq EXCEPT !.refreshed = rq.refreshed + 1], "credential")
                     /\ UNCHANGED token
    /\ UNCHANGED <<SAMPLE_SIZE, run, prev, srv, fetch, loop, counters, resolved>>

\* --------------------------------------------------- find_latest_recon
\* recons = [r for r in data["reconciliations"] if r["mapping"] == MAPPING_NAME]
FilterRecons(data) == SelectSeq(data, LAMBDA r : r.mapping = MAPPING_NAME)

\* recons.sort(key=started, reverse=True); recons[0]: the sort is stable,
\* so among the runs with the greatest start the first listed is taken.
Latest(recons) ==
    recons[CHOOSE k \in 1..Len(recons) :
              /\ \A m \in 1..Len(recons) : recons[m].started <= recons[k].started
              /\ \A m \in 1..(k - 1) : recons[m].started < recons[k].started]

\* ------------------------------------ get_found_already_linked_entries
\* if cookie: params["_pagedResultsCookie"] = cookie
PageParams(ck) == [NoParams EXCEPT !.cookie = IF TruthyInt(ck) THEN ck ELSE NoCookie]

\* Mutant: `and` for `or`.
MutPageLoopEndsAnd(ck, batch) == ~TruthyInt(ck) /\ Len(batch) = 0

\* if not cookie or len(batch) == 0: break
PageLoopEnds(ck, batch) == ~TruthyInt(ck) \/ Len(batch) = 0

\* ------------------------------------------------------------ find_link
\* search_ids = set(filter(None, [source_id, target_id]))
SearchIds(entry) ==
    { x \in {entry.sourceObjectId, entry.targetObjectId} : TruthyStr(x) }

\* for search_id in search_ids: for field in ["firstId", "secondId"]: the
\* queries of one find_link call, for one iteration order of the set.
Queries(order) ==
    [k \in 1..(2 * Len(order)) |->
        [NoParams EXCEPT !.id = order[(k + 1) \div 2],
                         !.field = IF k % 2 = 1 THEN "firstId" ELSE "secondId"]]

\* The orders in which a Python set of at most two ids may be iterated.
Orders(S) == { o \in [1..Cardinality(S) -> S] :
                  \A x \in S : \E k \in DOMAIN o : o[k] = x }

\* Deduplicate by _id, keeping the first occurrence.
Unique(cands) ==
    LET F[k \in 0..Len(cands)] ==
          IF k = 0 THEN <<>>
          ELSE IF \E m \in 1..Len(F[k - 1]) : F[k - 1][m]._id = cands[k]._id
               THEN F[k - 1]
               ELSE Append(F[k - 1], cands[k])
    IN F[Len(cands)]

\* Mutant: no filter on the link type.
MutMatchingAll(unique) == unique

\* matching = [c for c in unique if c.get("linkType") == MAPPING_NAME]
Matching(unique) == SelectSeq(unique, LAMBDA c : c.linkType = MAPPING_NAME)

\* ----------------------------------------------------------------- main
\* Mutant: the dry run is tied to the wrong mode.
MutDryRunNegative(sample) == sample < 0

\* dry_run = SAMPLE_SIZE == 0
DryRun(sample) == sample = 0

\* Mutant: the slice is one too long.
MutToProcessOneMore(es, sample) ==
    IF sample > 0 THEN SubSeq(es, 1, Min(sample + 1, Len(es))) ELSE es

\* to_process = entries[:SAMPLE_SIZE] if SAMPLE_SIZE > 0 else entries
ToProcess(es, sample) ==
    IF sample > 0 THEN SubSeq(es, 1, Min(sample, Len(es))) ELSE es

\* Mutant: the entry is not counted.
MutCountNotFoundSkipped(n) == n

\* not_found += 1
CountNotFound(n) == n + 1

\* Mutant: a raised api_delete is counted as a deletion.
MutCountRaisedAsDeleted(d, f) == <<d + 1, f>>

\* except Exception: failed += 1  (the pair is <<deleted, failed>>)
CountRaised(d, f) == <<d, f + 1>>

\* deleted += 1
CountDeleted(d, f) == <<d + 1, f>>

Init ==
    /\ SAMPLE_SIZE \in -1..MaxSample
    /\ run = 1
    /\ prev = [deleted |-> 0, failed |-> 0, not_found |-> 0, delFailed |-> 0]
    /\ srvRecons \in ReconLists
    /\ srvPages = <<>>
    /\ \E S \in SUBSET LinkIds : \E rv \in InitRevs :
          repo = [l \in S |-> LinkRecord(l, rv)]
    /\ mods = 0
    /\ removed = {}
    /\ pc = "start"
    /\ token = ""
    /\ rq = IdleRequest
    /\ recon_id = "" /\ fal_count = 0
    /\ entries = <<>> /\ cookie = NoCookie /\ page = 0
    /\ to_process = <<>> /\ i = 0
    /\ pending = <<>> /\ candidates = <<>> /\ links = <<>> /\ j = 0
    /\ deleted = 0 /\ failed = 0 /\ not_found = 0
    /\ delFailed = 0
    /\ resolved = <<>>

\* main, steps 1 and 2: token_mgr = TokenManager(); find_latest_recon()
\* calls api_get("/recon").
StartRun ==
    /\ pc = "start"
    /\ pc' = "recon"
    /\ rq' = ApiGet("/recon", "", NoParams)
    /\ UNCHANGED <<SAMPLE_SIZE, run, prev, srv, token, fetch, loop, counters,
                   delFailed, resolved>>

\* GET /recon returned: the rest of find_latest_recon, main up to the
\* first page request of get_found_already_linked_entries.
OnRecon ==
    /\ pc = "recon"
    /\ rq.st = "ok"
    /\ LET recons == FilterRecons(rq.body.reconciliations)
       IN IF recons = <<>>
          THEN /\ pc' = "exit"                 \* sys.exit(1)
               /\ rq' = IdleRequest
               /\ UNCHANGED fetch
          ELSE /\ recon_id' = Latest(recons)._id
               /\ fal_count' = Latest(recons).FOUND_ALREADY_LINKED
               /\ IF fal_count' = 0
                  THEN /\ pc' = "nothing_to_do"
                       /\ rq' = IdleRequest
                       /\ UNCHANGED <<entries, cookie, page>>
                  ELSE /\ pc' = "pages"
                       /\ entries' = <<>>
                       /\ cookie' = NoCookie
                       /\ page' = 0
                       /\ rq' = ApiGet("/recon/assoc/{id}/entry", recon_id',
                                       PageParams(NoCookie))
    /\ UNCHANGED <<SAMPLE_SIZE, run, prev, srv, token, loop, counters,
                   delFailed, resolved>>

\* A page returned: the rest of the loop body of
\* get_found_already_linked_entries and, after the loop, main up to the
\* for loop over to_process.
OnPage ==
    /\ pc = "pages"
    /\ rq.st = "ok"
    /\ LET batch == rq.body.result
       IN /\ entries' = entries \o batch
          /\ page' = page + 1
          /\ cookie' = rq.body.pagedResultsCookie
          /\ IF ~PageLoopEnds(cookie', batch)
             THEN /\ rq' = ApiGet("/recon/assoc/{id}/entry", recon_id,
                                  PageParams(cookie'))
                  /\ UNCHANGED <<pc, to_process, i, counters>>
             ELSE IF entries' = <<>>
             THEN /\ pc' = "no_entries"
                  /\ rq' = IdleRequest
                  /\ UNCHANGED <<to_process, i, counters>>
             ELSE /\ pc' = "entry"
                  /\ deleted' = 0 /\ failed' = 0 /\ not_found' = 0
                  /\ to_process' = ToProcess(entries', SAMPLE_SIZE)
                  /\ i' = 1
                  /\ rq' = IdleRequest
    /\ UNCHANGED <<SAMPLE_SIZE, run, prev, srv, token, recon_id, fal_count,
                   pending, candidates, links, j, delFailed, resolved>>

\* The head of the for loop over to_process and the start of find_link:
\* with no id to search for, find_link returns [] without a query.
EntryStart ==
    /\ pc = "entry"
    /\ i <= Len(to_process)
    /\ LET ids == SearchIds(to_process[i])
       IN IF ids = {}
          THEN /\ not_found' = CountNotFound(not_found)
               /\ resolved' = Append(resolved, 0)
               /\ i' = i + 1
               /\ UNCHANGED <<pc, rq, pending, candidates>>
          ELSE /\ \E o \in Orders(ids) :
                     /\ rq' = ApiGet("/repo/link", "", Queries(o)[1])
                     /\ pending' = Tail(Queries(o))
               /\ candidates' = <<>>
               /\ pc' = "find"
               /\ UNCHANGED <<not_found, resolved, i>>
    /\ UNCHANGED <<SAMPLE_SIZE, run, prev, srv, token, fetch, to_process,
                   links, j, deleted, failed, delFailed>>

\* A link query returned: the next query of find_link, or, after the
\* last, the rest of find_link and the loop body of main up to the first
\* api_delete (in a dry run, to the end of the iteration).
OnLinkQuery ==
    /\ pc = "find"
    /\ rq.st = "ok"
    /\ LET cands == candidates \o rq.body.links
           found == Matching(Unique(cands))
       IN IF pending # <<>>
          THEN /\ rq' = ApiGet("/repo/link", "", Head(pending))
               /\ pending' = Tail(pending)
               /\ candidates' = cands
               /\ UNCHANGED <<pc, i, links, j, not_found, resolved>>
          ELSE /\ resolved' = Append(resolved, Len(found))
               /\ candidates' = <<>>
               /\ pending' = <<>>
               /\ IF found = <<>>
                  THEN /\ not_found' = CountNotFound(not_found)
                       /\ i' = i + 1
                       /\ pc' = "entry"
                       /\ rq' = IdleRequest
                       /\ UNCHANGED <<links, j>>
                  ELSE IF DryRun(SAMPLE_SIZE)
                  THEN /\ i' = i + 1
                       /\ pc' = "entry"
                       /\ rq' = IdleRequest
                       /\ UNCHANGED <<links, j, not_found>>
                  ELSE /\ links' = found
                       /\ j' = 1
                       /\ rq' = ApiDelete(found[1]._id, found[1]._rev)
                       /\ pc' = "delete"
                       /\ UNCHANGED <<i, not_found>>
    /\ UNCHANGED <<SAMPLE_SIZE, run, prev, srv, token, fetch, to_process,
                   deleted, failed, delFailed>>

\* After one link of the entry is dealt with, counters cnt = <<deleted,
\* failed>>: the api_delete of the next link, or the next entry.
AfterLink(cnt) ==
    /\ deleted' = cnt[1]
    /\ failed' = cnt[2]
    /\ IF j < Len(links)
       THEN /\ j' = j + 1
            /\ rq' = ApiDelete(links[j + 1]._id, links[j + 1]._rev)
            /\ UNCHANGED <<pc, i, links>>
       ELSE /\ i' = i + 1
            /\ pc' = "entry"
            /\ links' = <<>>
            /\ j' = 0
            /\ rq' = IdleRequest
    /\ UNCHANGED <<SAMPLE_SIZE, run, prev, srv, token, fetch, to_process,
                   pending, candidates, not_found, delFailed, resolved>>

\* api_delete returned.
OnDeleted ==
    /\ pc = "delete"
    /\ rq.st = "ok"
    /\ AfterLink(CountDeleted(deleted, failed))

\* api_delete raised: except Exception.
OnDeleteRaised ==
    /\ pc = "delete"
    /\ rq.st = "raised"
    /\ AfterLink(CountRaised(deleted, failed))

\* The for loop is exhausted: the summary is printed.
Summary ==
    /\ pc = "entry"
    /\ i > Len(to_process)
    /\ pc' = "summary"
    /\ UNCHANGED <<SAMPLE_SIZE, run, prev, srv, token, rq, fetch, loop,
                   counters, delFailed, resolved>>

\* Another client of the repository updates a link record while the
\* script works on the entries: the record gets a new revision.  Only the
\* order of the update and the script's exchanges with the service
\* matters, so the update is placed right before an exchange.
EnvModify ==
    /\ pc \in {"find", "delete"}
    /\ rq.st = "send"
    /\ mods < MaxMods
    /\ \E l \in DOMAIN repo :
          repo' = [repo EXCEPT ![l]._rev = NextRev(repo[l]._rev)]
    /\ mods' = mods + 1
    /\ UNCHANGED <<SAMPLE_SIZE, run, prev, srvRecons, srvPages, removed, pc,
                   token, rq, fetch, loop, counters, delFailed, resolved>>

\* The operator runs the script again, with the same configuration,
\* after a run that printed its summary.
Rerun ==
    /\ pc = "summary"
    /\ run = 1
    /\ run' = 2
    /\ prev' = [deleted |-> deleted, failed |-> failed,
                not_found |-> not_found, delFailed |-> delFailed]
    /\ removed' = {}
    /\ pc' = "start"
    /\ token' = ""
    /\ rq' = IdleRequest
    /\ recon_id' = "" /\ fal_count' = 0
    /\ entries' = <<>> /\ cookie' = NoCookie /\ page' = 0
    /\ to_process' = <<>> /\ i' = 0
    /\ pending' = <<>> /\ candidates' = <<>> /\ links' = <<>> /\ j' = 0
    /\ deleted' = 0 /\ failed' = 0 /\ not_found' = 0
    /\ delFailed' = 0
    /\ resolved' = <<>>
    /\ UNCHANGED <<SAMPLE_SIZE, srvRecons, srvPages, repo, mods>>

\* The steps of the script and of the service answering it.
Script ==
    \/ StartRun
    \/ TokenFirstUse
    \/ Attempt
    \/ Refresh401
    \/ OnRecon
    \/ OnPage
    \/ EntryStart
    \/ OnLinkQuery
    \/ OnDeleted
    \/ OnDeleteRaised
    \/ Summary

\* One run of the script against a repository other clients update.
Next == Script \/ EnvModify

Spec == Init /\ [][Next]_vars

\* Two runs of the script in a row against a repository nobody else
\* touches.
NextRerun == Script \/ Rerun

SpecRerun == Init /\ [][NextRerun]_vars

\* =============================================================== claims
BothIds(e) == TruthyStr(e.sourceObjectId) /\ TruthyStr(e.targetObjectId)
EntryIds(e) == {e.sourceObjectId, e.targetObjectId}
Ends(l) == {l.firstId, l.secondId}
IsDelete(r) == r.method = "DELETE"
Finished(r) == r.st \in {"ok", "raised"}

\* C1: every DELETE request the script issues targets a link record whose
\* linkType is MAPPING_NAME, and every record the service deletes for it
\* has that type, also when a record of another type shares the entry's
\* endpoint ids.
C1_DeletesOnlyMappingLinks ==
    /\ IsDelete(rq) =>
          /\ LinkShape(rq.lid).linkType = MAPPING_NAME
          /\ links[j]._id = rq.lid /\ links[j].linkType = MAPPING_NAME
          /\ rq.lid \in DOMAIN repo => repo[rq.lid].linkType = MAPPING_NAME
    /\ \A r \in removed : r.linkType = MAPPING_NAME

\* C1 witness: a link of the mapping was deleted for entry a-b while the
\* a-b link of the other mapping is still in the repository.
C1_Witness ==
    /\ pc = "summary"
    /\ \E r \in removed : Ends(r) = {"a", "b"}
    /\ 3 \in DOMAIN repo /\ Ends(repo[3]) = {"a", "b"}
    /\ repo[3].linkType # MAPPING_NAME

\* C2 (as claimed): for an entry with both ids, find_link resolves no
\* record that shares just one endpoint id with the entry and has another
\* identity at its other endpoint, and no DELETE is issued for one.
C2_ResolvedJoinEntryIds ==
    (pc = "delete" /\ BothIds(to_process[i])) =>
        /\ \A k \in 1..Len(links) : Ends(links[k]) \subseteq EntryIds(to_process[i])
        /\ IsDelete(rq) => Ends(LinkShape(rq.lid)) \subseteq EntryIds(to_process[i])

\* C3: in a dry run no DELETE request is issued, the service deletes
\* nothing and the deleted and failed counters stay 0.
C3_DryRunNeverDeletes ==
    SAMPLE_SIZE = 0 =>
        /\ ~IsDelete(rq) /\ pc # "delete"
        /\ removed = {}
        /\ deleted = 0 /\ failed = 0 /\ delFailed = 0

\* C3 witness: a dry run reached its summary having resolved links.
C3_Witness ==
    /\ SAMPLE_SIZE = 0
    /\ pc = "summary"
    /\ \E k \in 1..Len(resolved) : resolved[k] > 0

\* C4 (as claimed): every DELETE sent carries If-Match with the _rev read
\* by find_link in this iteration, and a record the service deleted had,
\* when deleted, the revision that was read.
C4_DeleteCarriesReadRev ==
    /\ (IsDelete(rq) /\ rq.sent > 0) =>
          /\ rq.ifMatch.present
          /\ rq.ifMatch.value = links[j]._rev
    /\ (pc = "delete" /\ rq.st = "ok") =>
          \E r \in removed : r._id = links[j]._id /\ r._rev = links[j]._rev

\* C5 (as claimed): a finished request whose first response was 401 has
\* refreshed once and been sent twice.
C5_Refreshed401IsResent ==
    (Finished(rq) /\ rq.first = 401) => (rq.refreshed = 1 /\ rq.sent = 2)

\* What identifies the request on the wire, the credential aside.
Wire(r) == <<r.method, r.path, r.rid, r.lid, r.params, r.ifMatch>>

C5_Counts ==
    /\ rq.sent <= 2
    /\ rq.refreshed <= 1
    /\ rq.st = "ok" => rq.last = 200
    /\ (Finished(rq) /\ rq.sent > 0 /\ rq.last # 200) => rq.st = "raised"
    /\ (Finished(rq) /\ rq.first = 401) =>
          /\ rq.refreshed = 1
          /\ IF rq.err = "credential" THEN rq.sent = 1 /\ rq.st = "raised"
                                      ELSE rq.sent = 2
    /\ (Finished(rq) /\ rq.first # 401) => (rq.refreshed = 0 /\ rq.sent <= 1)
    /\ rq.st = "refresh" => (rq.first = 401 /\ rq.sent = 1 /\ rq.refreshed = 0)

\* C5 (amended): a request whose first response is 401 attempts one
\* credential refresh; if the exchange succeeds the same request is sent
\* exactly once more, and if it fails the error is raised with no second
\* attempt.  A 401 on the second attempt or another non-success status on
\* either raises.  At most two attempts, at most one refresh after a 401,
\* no result without a successful response.
C5_RetryOnceOn401 ==
    /\ []C5_Counts
    /\ [][rq'.sent = rq.sent + 1 /\ rq.sent > 0 => Wire(rq') = Wire(rq)]_vars

\* C5 witness: a request answered 401, then, resent after the refresh,
\* answered successfully.
C5_Witness ==
    rq.st = "ok" /\ rq.first = 401 /\ rq.sent = 2 /\ rq.refreshed = 1

\* The fatal conditions of C6, as they show in the state.
FatalNow ==
    \/ pc = "exit"
    \/ /\ rq.st = "raised"
       /\ \/ rq.err = "credential"
          \/ rq.err = "http" /\ rq.last = 401
          \/ rq.err = "http" /\ rq.method = "GET"

\* C6 (as claimed): after a fatal condition the script issues no further
\* remote call and processes no further entry or link.
C6_FatalStopsRun ==
    [][FatalNow => (rq' = rq /\ pc' = pc /\ i' = i /\ j' = j)]_vars

\* The entries handled so far whose resolution was empty.
EmptyResolutions == Cardinality({k \in 1..Len(resolved) : resolved[k] = 0})

C7_SummaryCounts ==
    (pc = "summary" /\ SAMPLE_SIZE # 0) =>
        /\ deleted = Cardinality(removed)
        /\ failed = delFailed
        /\ deleted + failed = Sum(resolved)
        /\ not_found = EmptyResolutions
        /\ Len(resolved) = Len(to_process)
        /\ i = Len(to_process) + 1

C7_RaisedDeleteStep ==
    (pc = "delete" /\ rq.st = "raised") =>
        /\ failed' = failed + 1
        /\ deleted' = deleted
        /\ not_found' = not_found
        /\ IF j < Len(links)
           THEN pc' = "delete" /\ i' = i /\ j' = j + 1 /\ rq'.st = "send"
                /\ rq'.lid = links[j + 1]._id
           ELSE pc' = "entry" /\ i' = i + 1

\* C7: outside a dry run a failed delete adds one to failed, leaves
\* deleted alone and the script goes on with the next link or entry; at
\* the summary every entry of to_process has been handled, deleted is
\* the number of DELETE calls that succeeded, failed the number that
\* raised, their sum the number of links resolved, and not_found the
\* number of entries that resolved to nothing.
C7_FailedDeleteCountedAndContinues ==
    /\ []C7_SummaryCounts
    /\ [][C7_RaisedDeleteStep]_vars

\* C7 witness: a summary after a failed delete, a successful one and an
\* entry with no link.
C7_Witness ==
    pc = "summary" /\ failed > 0 /\ deleted > 0 /\ not_found > 0

Terminal(pg) == ~TruthyInt(pg.pagedResultsCookie) \/ Len(pg.result) = 0
PageResults(n) == [k \in 1..n |-> srvPages[k].result]
PagingOver ==
    \/ pc \in {"entry", "find", "delete", "summary", "no_entries"}
    \/ pc = "error" /\ rq.path = "/repo/link"

\* C8: each page request after the first carries the cookie returned
\* with the previous page; the loop goes on only while no page received
\* lacked a cookie or was empty, and ends at the first such page with no
\* page requested after it; the entries are the received pages'
\* results, concatenated in order, whatever the summary count says.
C8_Pagination ==
    /\ page <= Len(srvPages) /\ Len(srvPages) <= page + 1
    /\ entries = Concat(PageResults(page))
    /\ pc = "pages" =>
          /\ rq.path = "/recon/assoc/{id}/entry" /\ rq.rid = recon_id
          /\ rq.params.cookie =
                IF page = 0 THEN NoCookie ELSE srvPages[page].pagedResultsCookie
          /\ \A k \in 1..page : ~Terminal(srvPages[k])
    /\ PagingOver =>
          /\ page >= 1
          /\ Len(srvPages) = page
          /\ Terminal(srvPages[page])
          /\ \A k \in 1..(page - 1) : ~Terminal(srvPages[k])

\* C8 witness: two pages were fetched, the first with a cookie, and the
\* entries number differs from the summary count.
C8_Witness ==
    /\ pc = "summary"
    /\ page = 2
    /\ Len(srvPages[1].result) > 0 /\ Len(srvPages[2].result) > 0
    /\ Len(entries) # fal_count

\* C9: a second run after a run whose summary reported no failed delete
\* issues no DELETE, deletes nothing and, outside a dry run, counts every
\* entry it handles as not found; it finds the reconciliation and the
\* entries again and ends in an error only when the service answers a
\* request with a failure.
C9_RerunFindsNothing ==
    (run = 2 /\ prev.failed = 0) =>
        /\ pc \notin {"exit", "nothing_to_do", "no_entries"}
        /\ pc = "error" =>
              (rq.st = "raised" /\ (rq.err = "credential" \/ RaisesForStatus(rq.last)))
        /\ ~IsDelete(rq) /\ pc # "delete"
        /\ removed = {}
        /\ deleted = 0 /\ failed = 0 /\ delFailed = 0
        /\ (SAMPLE_SIZE # 0 /\ pc \in {"entry", "find", "summary"}) =>
              /\ not_found = Len(resolved)
              /\ \A k \in 1..Len(resolved) : resolved[k] = 0
        /\ (SAMPLE_SIZE # 0 /\ pc = "summary") => not_found = Len(to_process)

\* C9 witness: the second run reached its summary after a first run that
\* deleted links, none failing.
C9_Witness ==
    /\ run = 2 /\ pc = "summary"
    /\ prev.deleted > 0 /\ prev.failed = 0
    /\ not_found > 0

\* C10: with SAMPLE_SIZE = N > 0 the entries processed are the first
\* min(N, total) in fetch order; every link query and DELETE is on behalf
\* of an entry at a position up to N.
C10_SampleProcessesFirstN ==
    (SAMPLE_SIZE > 0 /\ PagingOver) =>
        LET n == Min(SAMPLE_SIZE, Len(entries))
        IN /\ Len(to_process) = n
           /\ \A k \in 1..n : to_process[k] = entries[k]
           /\ i <= n + 1
           /\ rq.st # "idle" => i <= n
           /\ (rq.st # "idle" /\ ~IsDelete(rq)) =>
                 rq.params.id \in SearchIds(entries[i])
           /\ IsDelete(rq) =>
                 Ends(LinkShape(rq.lid)) \cap SearchIds(entries[i]) # {}
           /\ pc = "summary" => (Len(resolved) = n /\ i = n + 1)

\* C10 witness: a sampled run over more entries than the sample reached
\* its summary.
C10_Witness ==
    /\ pc = "summary"
    /\ SAMPLE_SIZE > 0 /\ Len(entries) > SAMPLE_SIZE
    /\ Len(resolved) = SAMPLE_SIZE
    /\ Sum(resolved) > 0
====
